---- MODULE Spec2Model ----
(***************************************************************************)
(* scripts/download-bing-photos.cjs as a state machine.                    *)
(*                                                                         *)
(* main() is one async function; every `await` is a suspension point, and  *)
(* the code between two suspension points runs without interleaving.  An   *)
(* action of this module is therefore "an awaited outcome arrives and main *)
(* runs on to its next await (or to its end)".  The remote servers, the    *)
(* image decoder and the encoder are the environment: their outcomes are   *)
(* drawn from small sets.                                                  *)
(*                                                                         *)
(* Strings are sequences of tokens, so template literals are \o.           *)
(* null / undefined / "" (all falsy in JS) are the empty sequence.         *)
(***************************************************************************)
EXTENDS Integers, Sequences, FiniteSets, TLC

\* ---------------------------------------------------------------- constants
\* TARGET_COUNT is 50, MAX_FETCH_DAYS is 8 and MARKETS has 32 entries in the
\* source; the model keeps their roles and scales their values.
TARGET_COUNT == 3
MAX_FETCH_DAYS == 2
NumMarkets == 2
MARKETS == [m \in 1..NumMarkets |-> <<"mkt", m>>]
BATCH_SIZE == 1
MAX_BYTES == 500 * 1024
MAX_DOWNLOAD_BYTES == 10 * 1024 * 1024
SIZE_CANDIDATES == <<"800x600", "640x480", "400x240">>
WidthLadder == <<1000, 900, 800, 700, 640, 560, 480, 400>>
qualities == <<80, 70, 60, 55, 50, 45, 40, 35>>

\* ---------------------------------------------------------------- bounds
MaxChunks == 2     \* most 'data' events of one response body

Null == <<>>
Host == <<"https://www.bing.com">>
NoFile == 0 - 1

\* ---------------------------------------------------------------- environment
\* What the servers, the decoder and the encoder may answer.  Spec is the whole
\* run, with the archive answering from a small catalogue.  SpecCollect is the
\* collector alone (lines 128-177, up to the first download request), with the
\* archive answering from a wider catalogue: more distinct keys than the target
\* count, and two items that share a key but not a URL.
Item(url, urlbase) == [url |-> url, urlbase |-> urlbase]

\* item.url / item.urlbase of the items a metadata response may carry
Items ==
  {Item(Null, <<"/b">>), Item(<<"/a">>, Null), Item(<<"/a">>, <<"/a">>), Item(<<"/a">>, <<"/b">>)}
WideItems ==
  {Item(<<"/a">>, Null), Item(<<"/a">>, <<"/a">>), Item(<<"/b">>, <<"/a">>),
   Item(<<"/b">>, <<"/b">>), Item(<<"/b">>, Null)}

ItemLists(items, n) == UNION {[1..k -> items] : k \in 0..n}

\* A parsed payload: truthy (not null), whether payload.images is an array, and
\* that array.
PayloadsOf(lists) ==
  {[truthy |-> FALSE, isArray |-> FALSE, images |-> <<>>],
   [truthy |-> TRUE, isArray |-> FALSE, images |-> <<>>]}
  \cup {[truthy |-> TRUE, isArray |-> TRUE, images |-> l] : l \in lists}

Payloads == PayloadsOf(ItemLists(Items, TARGET_COUNT))
WidePayloads == PayloadsOf(ItemLists(WideItems, TARGET_COUNT))

\* content-length header values (Null: header absent)
Headers == {Null, <<MAX_BYTES>>, <<MAX_DOWNLOAD_BYTES>>, <<MAX_DOWNLOAD_BYTES + 1>>}
\* chunk.length of a 'data' event
ChunkLens == {MAX_BYTES, MAX_DOWNLOAD_BYTES}
\* meta.width reported by the decoder (0: undefined)
MetaWidths == {0, 480, 1200}
\* outputBuffer.length of one encode
EncodeLens == {MAX_BYTES, MAX_BYTES + 1}

VARIABLES
  pc,        \* the await main is suspended at, or "done" / "exit1"
  idx,       \* day offset of the collection loop
  mk,        \* position in MARKETS of the request in flight
  images,    \* the collected list
  seen,      \* the set of dedupe keys
  original,  \* images.slice() taken before padding (<<>> if no padding)
  requests,  \* archive URLs requested so far, in order
  dupes,     \* items of the latest response skipped at line 153 (collection only)
  unread,    \* items of the latest response left unread by the break at line 156
  lastFailed,\* the latest fetchJson call rejected (collection only)
  i,         \* index of the logical image (0-based)
  saved,     \* number of files counted as saved
  c,         \* position in the URL ladder of the request in flight (1..4)
  attempts,  \* URLs passed to downloadWithLimit for the current image, in order
  files,     \* output directory: slot k -> size of k.jpg, or NoFile
  total,     \* downloadWithLimit: bytes received
  buffered,  \* downloadWithLimit: bytes in chunks[]
  aborted,   \* downloadWithLimit: aborted flag (res destroyed)
  complete,  \* res.complete: the whole message was parsed
  nchunks,   \* number of 'data' events delivered
  lengthHeader, \* content-length of the latest 200 response (Null: absent)
  result,    \* outcome of the last downloadWithLimit call
  width,     \* compressToLimit: meta.width || 0
  candidates,\* compressToLimit: the width ladder
  wi, qi,    \* compressToLimit: position in candidates / qualities
  tried,     \* compressToLimit: (width, quality, size) of the encodes so far
  compressed,\* what compressToLimit returned: "true", "false", "threw" ("": nothing yet)
  clean,     \* no URL was rejected and no file re-encoded so far
  exitCode

vars == <<pc, idx, mk, images, seen, original, requests, i, saved, c, attempts, files,
          total, buffered, aborted, complete, nchunks, lengthHeader, result,
          width, candidates, wi, qi, tried, compressed, clean, dupes, unread, lastFailed, exitCode>>

collectVars == <<idx, mk, images, seen, original, requests, dupes, unread, lastFailed>>
dlVars == <<total, buffered, aborted, complete, nchunks, lengthHeader>>
compressVars == <<width, candidates, wi, qi, tried, compressed>>

\* ---------------------------------------------------------------- helpers
buildArchiveUrl(index, n, market) ==
  <<"https://www.bing.com/HPImageArchive.aspx?format=js&idx=", index, "&n=", n, "&mkt=", market>>

\* `${urlBase}`: null prints as "null"
Str(s) == IF s = Null THEN <<"null">> ELSE s

buildImageUrl(urlBase, size) == Host \o Str(urlBase) \o <<"_", size, ".jpg">>

extractImages(payload) ==
  IF ~payload.truthy THEN <<>>
  ELSE IF payload.isArray THEN payload.images
  ELSE <<>>

\* a dedupe keyed on the URL alone
dedupeKeyByUrl(url, urlBase) == url

\* line 152
dedupeKeyOf(url, urlBase) == IF urlBase # Null THEN urlBase ELSE url

\* the result of scanning one response: the list, the seen set, and what the
\* scan skipped as duplicate or never read
Scanned(imgs, sn, nd, nu) == [images |-> imgs, seen |-> sn, dupes |-> nd, unread |-> nu]

\* the loop of lines 148-157 without the break at line 156
RECURSIVE collectItemsNoBreak(_, _, _, _)
collectItemsNoBreak(imgs, sn, items, nd) ==
  IF items = <<>> THEN Scanned(imgs, sn, nd, 0)
  ELSE LET item == Head(items)
           url == IF item.url # Null THEN Host \o item.url ELSE Null
           urlBase == IF item.urlbase # Null THEN item.urlbase ELSE Null
           dedupeKey == IF urlBase # Null THEN urlBase ELSE url
       IN IF url = Null THEN collectItemsNoBreak(imgs, sn, Tail(items), nd)
          ELSE IF dedupeKey \in sn THEN collectItemsNoBreak(imgs, sn, Tail(items), nd + 1)
          ELSE collectItemsNoBreak(Append(imgs, [url |-> url, urlBase |-> urlBase]),
                                   sn \cup {dedupeKey}, Tail(items), nd)

\* lines 148-157: the loop over one response's items; `nd` counts the items
\* skipped at line 153
RECURSIVE collectItems(_, _, _, _)
collectItems(imgs, sn, items, nd) ==
  IF items = <<>> THEN Scanned(imgs, sn, nd, 0)
  ELSE LET item == Head(items)
           url == IF item.url # Null THEN Host \o item.url ELSE Null
           urlBase == IF item.urlbase # Null THEN item.urlbase ELSE Null
           dedupeKey == dedupeKeyOf(url, urlBase)
       IN IF url = Null THEN collectItems(imgs, sn, Tail(items), nd)
          ELSE IF dedupeKey \in sn THEN collectItems(imgs, sn, Tail(items), nd + 1)
          ELSE LET pushed == Append(imgs, [url |-> url, urlBase |-> urlBase])
               IN IF Len(pushed) >= TARGET_COUNT
                  THEN Scanned(pushed, sn \cup {dedupeKey}, nd, Len(Tail(items)))
                  ELSE collectItems(pushed, sn \cup {dedupeKey}, Tail(items), nd)

\* a padding that starts its cycle one entry late
RECURSIVE padImagesShifted(_, _)
padImagesShifted(imgs, orig) ==
  IF Len(imgs) < TARGET_COUNT
  THEN padImagesShifted(Append(imgs, orig[((Len(imgs) + 1) % Len(orig)) + 1]), orig)
  ELSE imgs

\* lines 169-174: padding
RECURSIVE padImages(_, _)
padImages(imgs, orig) ==
  IF Len(imgs) < TARGET_COUNT
  THEN padImages(Append(imgs, orig[(Len(imgs) % Len(orig)) + 1]), orig)
  ELSE imgs

\* a ladder that tries the canonical URL last
urlCandidatesSizesFirst(image) ==
  [k \in 1..Len(SIZE_CANDIDATES) |-> buildImageUrl(image.urlBase, SIZE_CANDIDATES[k])] \o <<image.url>>

\* line 182: the URL ladder of one logical image
urlCandidates(image) ==
  <<image.url>> \o [k \in 1..Len(SIZE_CANDIDATES) |-> buildImageUrl(image.urlBase, SIZE_CANDIDATES[k])]

\* a slot numbered by the saved count itself
outSlotStale(savedNow, iNow) == IF savedNow > 0 THEN savedNow ELSE 1

\* a slot numbered by the image's index instead of the saved count
outSlotByIndex(savedNow, iNow) == iNow + 1

\* line 179: the slot the current image is written to
outSlot(savedNow, iNow) == savedNow + 1

\* Array.prototype.indexOf, 1-based (0: absent)
indexOf(arr, w) ==
  IF \E k \in 1..Len(arr) : arr[k] = w
  THEN CHOOSE k \in 1..Len(arr) : arr[k] = w /\ \A j \in 1..(k-1) : arr[j] # w
  ELSE 0

\* lines 108-110: the width ladder: [width, 1000, ...] filtered to 0 < w <= width,
\* then to the first occurrence of each width
widthCandidates(srcWidth) ==
  LET all == <<srcWidth>> \o WidthLadder
      inRange(w) == w > 0 /\ w <= srcWidth
      capped == SelectSeq(all, inRange)
      firsts[k \in 0..Len(capped)] ==
        IF k = 0 THEN <<>>
        ELSE IF indexOf(capped, capped[k]) = k THEN Append(firsts[k - 1], capped[k])
        ELSE firsts[k - 1]
  IN firsts[Len(capped)]

\* a while condition that allows one day offset more
keepFetchingOneMore(len, index) == len < TARGET_COUNT /\ index <= MAX_FETCH_DAYS

\* line 135: the while condition
keepFetching(len, index) == len < TARGET_COUNT /\ index < MAX_FETCH_DAYS

\* a market loop that is never left early
neverBreakMarkets(len) == FALSE

\* line 158: leave the market loop
breakMarkets(len) == len >= TARGET_COUNT

\* the outcome object of downloadWithLimit ("rejected": the promise rejected)
Outcome(ok, reason, bytes) == [ok |-> ok, reason |-> reason, bytes |-> bytes]
NoResult == Outcome(FALSE, "none", 0)

\* ---------------------------------------------------------------- Init
Init ==
  /\ pc = "fetch"
  /\ idx = 0
  /\ mk = 1
  /\ images = <<>>
  /\ seen = {}
  /\ original = <<>>
  /\ requests = <<buildArchiveUrl(0, BATCH_SIZE, MARKETS[1])>>
  /\ dupes = 0
  /\ unread = 0
  /\ lastFailed = FALSE
  /\ clean = TRUE
  /\ i = 0
  /\ saved = 0
  /\ c = 1
  /\ attempts = <<>>
  /\ files = [k \in 1..TARGET_COUNT |-> NoFile]
  /\ total = 0
  /\ buffered = 0
  /\ aborted = FALSE
  /\ complete = FALSE
  /\ nchunks = 0
  /\ lengthHeader = Null
  /\ result = NoResult
  /\ width = 0
  /\ candidates = <<>>
  /\ compressed = ""
  /\ wi = 1
  /\ qi = 1
  /\ tried = <<>>
  /\ exitCode = -1

\* ---------------------------------------------------------------- collection
\* a collector that walks the day offsets of one market before the next market
ResumeDaysInside(imgs, sn) ==
  /\ images' = imgs
  /\ seen' = sn
  /\ IF Len(imgs) < TARGET_COUNT /\ idx + BATCH_SIZE < MAX_FETCH_DAYS
     THEN /\ idx' = idx + BATCH_SIZE
          /\ mk' = mk
          /\ requests' = Append(requests, buildArchiveUrl(idx + BATCH_SIZE, BATCH_SIZE, MARKETS[mk]))
          /\ pc' = "fetch"
     ELSE IF Len(imgs) < TARGET_COUNT /\ mk < Len(MARKETS)
     THEN /\ idx' = 0
          /\ mk' = mk + 1
          /\ requests' = Append(requests, buildArchiveUrl(0, BATCH_SIZE, MARKETS[mk + 1]))
          /\ pc' = "fetch"
     ELSE /\ idx' = idx
          /\ mk' = mk
          /\ requests' = requests
          /\ pc' = "collected"

\* lines 135-162: main resumes after `await fetchJson(...)` and runs to the
\* next fetchJson call or to the end of the while loop.
Resume(imgs, sn) ==
  /\ images' = imgs
  /\ seen' = sn
  /\ IF ~breakMarkets(Len(imgs)) /\ mk < Len(MARKETS)
     THEN /\ idx' = idx
          /\ mk' = mk + 1
          /\ requests' = Append(requests, buildArchiveUrl(idx, BATCH_SIZE, MARKETS[mk + 1]))
          /\ pc' = "fetch"
     ELSE /\ idx' = idx + BATCH_SIZE
          /\ IF keepFetching(Len(imgs), idx + BATCH_SIZE)
             THEN /\ mk' = 1
                  /\ requests' = Append(requests, buildArchiveUrl(idx + BATCH_SIZE, BATCH_SIZE, MARKETS[1]))
                  /\ pc' = "fetch"
             ELSE /\ mk' = mk
                  /\ requests' = requests
                  /\ pc' = "collected"

\* fetchJson rejected: non-200 status, JSON.parse threw, or a request error
FetchFailed ==
  /\ pc = "fetch"
  /\ Resume(images, seen)
  /\ dupes' = 0
  /\ unread' = 0
  /\ lastFailed' = TRUE
  /\ UNCHANGED <<original, i, saved, c, files, dlVars, result, compressVars, clean, exitCode, attempts>>

\* fetchJson resolved with a payload
FetchResolved(payloads) ==
  /\ pc = "fetch"
  /\ \E payload \in payloads :
       LET items == extractImages(payload)
           r == collectItems(images, seen, items, 0)
       IN IF Len(items) = 0
          THEN Resume(images, seen) /\ dupes' = 0 /\ unread' = 0
          ELSE Resume(r.images, r.seen) /\ dupes' = r.dupes /\ unread' = r.unread
  /\ lastFailed' = FALSE
  /\ UNCHANGED <<original, i, saved, c, files, dlVars, result, compressVars, clean, exitCode, attempts>>

\* an empty list that ends the run as a normal completion
AfterCollectNoExit ==
  /\ pc = "collected"
  /\ IF Len(images) = 0
     THEN /\ pc' = "done"
          /\ exitCode' = 0
          /\ UNCHANGED <<images, original, attempts>>
     ELSE /\ IF Len(images) < TARGET_COUNT
             THEN /\ original' = images
                  /\ images' = padImages(images, images)
             ELSE UNCHANGED <<images, original>>
          /\ pc' = "download"
          /\ attempts' = <<urlCandidates(images'[1])[1]>>
          /\ exitCode' = exitCode
  /\ dupes' = 0
  /\ unread' = 0
  /\ lastFailed' = FALSE
  /\ UNCHANGED <<idx, mk, seen, requests, i, saved, c, files, dlVars, result, compressVars, clean>>

\* lines 164-177: after the while loop, up to the first download request
AfterCollect ==
  /\ pc = "collected"
  /\ IF Len(images) = 0
     THEN /\ pc' = "exit1"
          /\ exitCode' = 1
          /\ UNCHANGED <<images, original, attempts>>
     ELSE /\ IF Len(images) < TARGET_COUNT
             THEN /\ original' = images
                  /\ images' = padImages(images, images)
             ELSE UNCHANGED <<images, original>>
          /\ pc' = "download"
          /\ attempts' = <<urlCandidates(images'[1])[1]>>
          /\ exitCode' = exitCode
  /\ dupes' = 0
  /\ unread' = 0
  /\ lastFailed' = FALSE
  /\ UNCHANGED <<idx, mk, seen, requests, i, saved, c, files, dlVars, result, compressVars, clean>>

\* ---------------------------------------------------------------- item loop
\* line 177: the for-loop step and guard, after logical image i is finished
\* with `sv` files saved.
NextImage(sv) ==
  /\ i' = i + 1
  /\ saved' = sv
  /\ IF i + 1 < Len(images) /\ sv < TARGET_COUNT
     THEN /\ pc' = "download"
          /\ c' = 1
          /\ attempts' = <<urlCandidates(images[i + 2])[1]>>
          /\ exitCode' = exitCode
     ELSE /\ pc' = "done"
          /\ c' = c
          /\ attempts' = attempts
          /\ exitCode' = 0

\* lines 183, 192, 199-207: the current URL was rejected; request the next URL
\* of the ladder, or give the image up.
NextCandidate ==
  /\ clean' = FALSE
  /\ IF c < Len(urlCandidates(images[i + 1]))
     THEN /\ pc' = "download"
          /\ c' = c + 1
          /\ attempts' = Append(attempts, urlCandidates(images[i + 1])[c + 1])
          /\ UNCHANGED <<i, saved, exitCode>>
     ELSE NextImage(saved)

\* lines 195-198: the file at the slot is kept
Stored == NextImage(saved + 1)

ResetDl ==
  /\ total' = 0
  /\ buffered' = 0
  /\ aborted' = FALSE
  /\ complete' = FALSE
  /\ nchunks' = 0

\* ---------------------------------------------------------------- downloadWithLimit
\* a checkpoint that also rejects a content-length equal to the ceiling
headerAtLeast(header, maxBytes) == header # Null /\ header[1] >= maxBytes

\* line 54: the content-length checkpoint
headerTooLarge(header, maxBytes) == header # Null /\ header[1] > maxBytes

\* line 64: the streaming checkpoint
overLimit(sum, maxBytes) == sum > maxBytes

\* line 188: the stored file is larger than the budget
overBudget(size, maxBytes) == size > maxBytes

\* a budget test that rejects a size equal to the budget
fitsBelow(len, maxBytes) == len < maxBytes

\* line 119: the encoded buffer fits the budget
fits(len, maxBytes) == len <= maxBytes

\* The promise of downloadWithLimit settles with outcome `r`; main's
\* continuation runs next.
Settle(r) ==
  /\ pc' = "settled"
  /\ result' = r

\* line 82: the request emitted 'error' before a response arrived
DlRequestError ==
  /\ pc = "download"
  /\ Settle(Outcome(FALSE, "rejected", 0))
  /\ UNCHANGED <<collectVars, i, saved, c, files, dlVars, compressVars, clean, exitCode, attempts>>

\* lines 47-61: the response callback
DlResponse(headers) ==
  /\ pc = "download"
  /\ \E status \in {200, 404}, header \in headers :
       IF status # 200
       THEN /\ Settle(Outcome(FALSE, "status", 0))
            /\ UNCHANGED dlVars
       ELSE IF headerTooLarge(header, MAX_DOWNLOAD_BYTES)
       THEN /\ Settle(Outcome(FALSE, "too-large", 0))
            /\ lengthHeader' = header
            /\ UNCHANGED <<total, buffered, aborted, complete, nchunks>>
       ELSE /\ pc' = "body"
            /\ lengthHeader' = header
            /\ UNCHANGED <<total, buffered, aborted, complete, nchunks, result>>
  /\ UNCHANGED <<collectVars, i, saved, c, files, compressVars, clean, exitCode, attempts>>

\* lines 62-70: a 'data' event.  `last` says the parser completed the message
\* while delivering this chunk (res.complete).
DlData(lens) ==
  /\ pc = "body"
  /\ ~aborted
  /\ ~complete
  /\ nchunks < MaxChunks
  /\ \E len \in lens, last \in BOOLEAN :
       /\ total' = total + len
       /\ nchunks' = nchunks + 1
       /\ complete' = last
       /\ IF overLimit(total + len, MAX_DOWNLOAD_BYTES)
          THEN /\ aborted' = TRUE
               /\ buffered' = buffered
          ELSE /\ aborted' = FALSE
               /\ buffered' = buffered + len
  /\ UNCHANGED <<pc, collectVars, i, saved, c, files, lengthHeader, result, compressVars, clean, exitCode, attempts>>

\* lines 71-75: 'end' on a response that was destroyed.  A destroyed response
\* emits 'end' only if the message had already completed when it was destroyed;
\* otherwise no event of this response is delivered any more.
DlEndAborted ==
  /\ pc = "body"
  /\ aborted
  /\ complete
  /\ Settle(Outcome(FALSE, "too-large", 0))
  /\ UNCHANGED <<collectVars, i, saved, c, files, dlVars, compressVars, clean, exitCode, attempts>>

\* an 'end' handler that resolves before the file is written
DlEndResolvesEarly ==
  /\ pc = "body"
  /\ ~aborted
  /\ Settle(Outcome(TRUE, "", total))
  /\ UNCHANGED <<collectVars, i, saved, c, files, dlVars, compressVars, clean, exitCode, attempts>>

\* an 'end' handler without the test of line 72
DlEndUnchecked ==
  /\ pc = "body"
  /\ pc' = "write"
  /\ UNCHANGED <<collectVars, i, saved, c, files, dlVars, result, compressVars, clean, exitCode, attempts>>

\* lines 71-76: 'end' on a live response: fs.writeFile is started
DlEnd ==
  /\ pc = "body"
  /\ ~aborted
  /\ pc' = "write"
  /\ UNCHANGED <<collectVars, i, saved, c, files, dlVars, result, compressVars, clean, exitCode, attempts>>

\* lines 76-77: fs.writeFile failed; the destination is untouched or was
\* truncated by the open.
DlWriteError ==
  /\ pc = "write"
  /\ Settle(Outcome(FALSE, "rejected", 0))
  /\ \E truncated \in BOOLEAN :
       files' = IF truncated THEN [files EXCEPT ![outSlot(saved, i)] = 0] ELSE files
  /\ UNCHANGED <<collectVars, i, saved, c, dlVars, compressVars, clean, exitCode, attempts>>

\* lines 76-78: fs.writeFile succeeded
DlWritten ==
  /\ pc = "write"
  /\ Settle(Outcome(TRUE, "", total))
  /\ files' = [files EXCEPT ![outSlot(saved, i)] = buffered]
  /\ UNCHANGED <<collectVars, i, saved, c, dlVars, compressVars, clean, exitCode, attempts>>

\* lines 185-202: main resumes after `await downloadWithLimit(...)`: a
\* rejection is caught, a failure outcome falls through to the next URL, a
\* success stats the file and keeps it or calls compressToLimit (line 100 reads
\* the file, line 103 awaits the metadata).
Resumed ==
  /\ pc = "settled"
  /\ IF result.ok
     THEN IF overBudget(files[outSlot(saved, i)], MAX_BYTES)
          THEN /\ pc' = "metadata"
               /\ clean' = FALSE
               /\ UNCHANGED <<i, saved, c, attempts, exitCode>>
          ELSE Stored /\ clean' = clean
     ELSE NextCandidate
  /\ result' = NoResult
  /\ lengthHeader' = Null
  /\ ResetDl
  /\ UNCHANGED <<collectVars, files, compressVars>>

\* ---------------------------------------------------------------- compressToLimit
ResetCompress ==
  /\ width' = 0
  /\ candidates' = <<>>
  /\ wi' = 1
  /\ qi' = 1
  /\ tried' = <<>>
  /\ compressed' = ""

\* compressToLimit returns `value` (or throws); main's continuation runs next
Return(value) ==
  /\ pc' = "compressed"
  /\ compressed' = value

\* lines 102-106: sharp(...).metadata() rejected
MetadataFailed ==
  /\ pc = "metadata"
  /\ Return("false")
  /\ UNCHANGED <<collectVars, i, saved, c, files, dlVars, result, width, candidates, wi, qi, tried, clean, exitCode, attempts>>

\* lines 103-113: the metadata arrived; the ladders are built and the first
\* encode is awaited (or the grid is empty)
MetadataRead(widths) ==
  /\ pc = "metadata"
  /\ \E w \in widths :
       /\ width' = w
       /\ candidates' = widthCandidates(w)
       /\ IF widthCandidates(w) = <<>>
          THEN Return("false")
          ELSE pc' = "encode" /\ compressed' = compressed
  /\ UNCHANGED <<collectVars, i, saved, c, files, dlVars, result, wi, qi, tried, clean, exitCode, attempts>>

\* lines 115-118: the encode rejected; the exception leaves compressToLimit
EncodeThrew ==
  /\ pc = "encode"
  /\ Return("threw")
  /\ UNCHANGED <<collectVars, i, saved, c, files, dlVars, result, width, candidates, wi, qi, tried, clean, exitCode, attempts>>

\* lines 113-125: one encode finished
Encoded ==
  /\ pc = "encode"
  /\ \E len \in EncodeLens :
       /\ tried' = Append(tried, <<candidates[wi], qualities[qi], len>>)
       /\ IF fits(len, MAX_BYTES)
          THEN /\ files' = [files EXCEPT ![outSlot(saved, i)] = len]
               /\ Return("true")
               /\ UNCHANGED <<wi, qi>>
          ELSE IF qi < Len(qualities)
          THEN /\ qi' = qi + 1
               /\ UNCHANGED <<pc, files, wi, compressed>>
          ELSE IF wi < Len(candidates)
          THEN /\ wi' = wi + 1
               /\ qi' = 1
               /\ UNCHANGED <<pc, files, compressed>>
          ELSE /\ Return("false")
               /\ UNCHANGED <<files, wi, qi>>
  /\ UNCHANGED <<collectVars, i, saved, c, dlVars, result, width, candidates, clean, exitCode, attempts>>

\* lines 189-202: main resumes after `await compressToLimit(...)`: true keeps
\* the file, false unlinks it and goes on to the next URL, an exception is
\* caught at line 200
CompressResumed ==
  /\ pc = "compressed"
  /\ IF compressed = "true"
     THEN Stored /\ clean' = clean /\ files' = files
     ELSE IF compressed = "false"
     THEN NextCandidate /\ files' = [files EXCEPT ![outSlot(saved, i)] = NoFile]
     ELSE NextCandidate /\ files' = files
  /\ ResetCompress
  /\ UNCHANGED <<collectVars, dlVars, result>>

\* ---------------------------------------------------------------- specification
Next ==
  \/ FetchFailed
  \/ FetchResolved(Payloads)
  \/ AfterCollect
  \/ DlRequestError
  \/ DlResponse(Headers)
  \/ DlData(ChunkLens)
  \/ DlEndAborted
  \/ DlEnd
  \/ DlWriteError
  \/ DlWritten
  \/ Resumed
  \/ MetadataFailed
  \/ MetadataRead(MetaWidths)
  \/ EncodeThrew
  \/ Encoded
  \/ CompressResumed

Spec == Init /\ [][Next]_vars

\* every awaited operation eventually delivers an outcome, and main runs on
\* when it does
SpecFair == Spec /\ WF_vars(Next)

NextCollect ==
  \/ FetchFailed
  \/ FetchResolved(WidePayloads)
  \/ AfterCollect

SpecCollect == Init /\ [][NextCollect]_vars

\* ---------------------------------------------------------------- properties
Slots == 1..TARGET_COUNT
Present(k) == files[k] # NoFile
Collecting == pc \in {"fetch", "collected"}
KeyOf(image) == IF image.urlBase # Null THEN image.urlBase ELSE image.url

\* C1: at the end of a run every file in the output directory is at most
\* MAX_BYTES long.
C1_FilesWithinBudget ==
  pc = "done" => \A k \in Slots : Present(k) => files[k] <= MAX_BYTES

\* C2: in every state the files of the output directory are exactly 1.jpg ..
\* m.jpg for some m in 0..TARGET_COUNT.
C2_ConsecutiveFiles ==
  \E m \in 0..TARGET_COUNT : \A k \in Slots : Present(k) <=> k <= m

\* a finished run that saved some files and skipped at least one image
C2_Witness ==
  /\ pc = "done"
  /\ saved = TARGET_COUNT - 1
  /\ \A k \in Slots : Present(k) <=> k <= saved

\* C3: during collection no two entries of the collected list share a dedupe
\* key, and the seen set is exactly the keys of the list.
C3_NoDuplicateKeys ==
  Collecting =>
    /\ \A p, q \in 1..Len(images) : p # q => KeyOf(images[p]) # KeyOf(images[q])
    /\ seen = {KeyOf(images[p]) : p \in 1..Len(images)}

\* a response repeated a key that was already collected, and was skipped
C3_Witness ==
  /\ Collecting
  /\ dupes > 0
  /\ Len(images) >= 2
  /\ \E p \in 1..Len(images) : images[p].urlBase = Null

\* C4: when collection ends with 0 < k < TARGET_COUNT entries, the padded list
\* has TARGET_COUNT entries and its entry at 0-based position p is
\* original[p mod k].
C4_PaddingCycles ==
  [][(pc = "collected" /\ Len(images) > 0 /\ Len(images) < TARGET_COUNT)
       => /\ Len(images') = TARGET_COUNT
          /\ \A p \in 0..(TARGET_COUNT - 1) : images'[p + 1] = images[(p % Len(images)) + 1]
          /\ original' = images]_vars

\* a padded list whose cycle is longer than one entry
C4_Witness ==
  /\ pc = "download"
  /\ Len(original) = TARGET_COUNT - 1
  /\ Len(original) > 1
  /\ original[1] # original[2]
  /\ Len(images) = TARGET_COUNT

\* C5: the list never holds more than TARGET_COUNT entries, and outside
\* collection (unless the run ended for want of candidates) it holds exactly
\* TARGET_COUNT.
C5_ListSize ==
  /\ Len(images) <= TARGET_COUNT
  /\ pc \notin {"fetch", "collected", "exit1"} => Len(images) = TARGET_COUNT
  /\ pc = "exit1" => Len(images) = 0

\* the target was reached in the middle of a response that carried more items
C5_Witness ==
  /\ pc = "collected"
  /\ Len(images) = TARGET_COUNT
  /\ unread > 0

\* C6: no metadata request is issued by a step that leaves the list at
\* TARGET_COUNT; a run whose only request filled the list and whose every
\* canonical download was kept as it came saves exactly 1.jpg..TARGET_COUNT.jpg.
C6_StopsFetching ==
  /\ [][Len(images') >= TARGET_COUNT => requests' = requests]_vars
  /\ []((pc = "done" /\ Len(requests) = 1 /\ clean)
          => /\ saved = TARGET_COUNT
             /\ \A k \in Slots : Present(k) /\ files[k] <= MAX_BYTES)

C6_Witness ==
  /\ pc = "done"
  /\ Len(requests) = 1
  /\ clean
  /\ saved = TARGET_COUNT
  /\ \A p, q \in 1..Len(images) : p # q => images[p] # images[q]

\* C7: when collection ends with an empty list the run ends at once with exit
\* status 1: no download was requested and no file exists.
C7_ExitWithoutCandidates ==
  /\ [][pc' = "exit1" => pc = "collected"]_vars
  /\ []((Len(images) = 0 /\ ~Collecting) => pc = "exit1")
  /\ [](pc = "exit1"
          => /\ exitCode = 1
             /\ Len(requests) = MAX_FETCH_DAYS * Len(MARKETS)
             /\ \A k \in Slots : ~Present(k)
             /\ i = 0 /\ saved = 0 /\ c = 1 /\ clean /\ result = NoResult
             /\ ~ENABLED Next)

C7_Witness ==
  /\ pc = "exit1"
  /\ exitCode = 1
  /\ Len(images) = 0

\* C8: a 200 response whose content-length is above the ceiling settles the
\* call with too-large, with nothing buffered; no call that settles without
\* reading a body changes a file; a content-length equal to the ceiling is not
\* rejected at the header.
C8_HeaderCheckpoint ==
  /\ []((pc = "settled" /\ lengthHeader # Null /\ lengthHeader[1] > MAX_DOWNLOAD_BYTES)
          => /\ result = Outcome(FALSE, "too-large", 0)
             /\ total = 0 /\ buffered = 0 /\ nchunks = 0)
  /\ [][(pc = "download" /\ pc' = "settled") => files' = files]_vars
  /\ [](pc \in {"body", "write"}
          => lengthHeader = Null \/ lengthHeader[1] <= MAX_DOWNLOAD_BYTES)
  /\ []((pc = "settled" /\ lengthHeader # Null /\ lengthHeader[1] <= MAX_DOWNLOAD_BYTES)
          => ~(result.reason = "too-large" /\ nchunks = 0))

\* the header checkpoint rejected a response while a file was left at the slot
C8_Witness ==
  /\ pc = "settled"
  /\ lengthHeader = <<MAX_DOWNLOAD_BYTES + 1>>
  /\ result = Outcome(FALSE, "too-large", 0)
  /\ Present(outSlot(saved, i))

\* C9: once the body has overflowed the ceiling and the response was aborted,
\* the too-large outcome is delivered to the caller (the 'end' handler can run).
C9_OverflowSettles ==
  (pc = "body" /\ aborted) => ENABLED DlEndAborted

\* C10: the encodes of one compressToLimit call walk the grid width-major in
\* descending width and, within a width, descending quality: the n-th encode
\* is cell n of that grid and the record of the encodes only grows; the width
\* ladder is strictly descending, starts at the source width and never
\* changes; every encode that did not end the call was over the budget, and
\* the call returns true exactly when the last one is within it (the file then
\* holds that encode), false only after the whole grid.
Grid(n) == <<candidates[((n - 1) \div Len(qualities)) + 1], qualities[((n - 1) % Len(qualities)) + 1]>>
Compressing == pc \in {"encode", "compressed"} /\ candidates # <<>>
LastTried == tried[Len(tried)]

C10_GridOrder ==
  /\ [](\A a, b \in 1..Len(qualities) : a < b => qualities[a] > qualities[b])
  /\ [](Compressing =>
         /\ \A a \in 1..(Len(candidates) - 1) : candidates[a] > candidates[a + 1]
         /\ candidates[1] = width
         /\ Len(tried) > 0 => <<LastTried[1], LastTried[2]>> = Grid(Len(tried))
         /\ pc = "encode" => /\ Grid(Len(tried) + 1) = <<candidates[wi], qualities[qi]>>
                             /\ Len(tried) > 0 => LastTried[3] > MAX_BYTES
         /\ (pc = "compressed" /\ compressed = "true")
              => /\ LastTried[3] <= MAX_BYTES
                 /\ files[outSlot(saved, i)] = LastTried[3]
         /\ (pc = "compressed" /\ compressed = "false")
              => /\ Len(tried) = Len(candidates) * Len(qualities)
                 /\ LastTried[3] > MAX_BYTES)
  /\ [][pc = "encode"
          => /\ candidates' = candidates
             /\ \/ tried' = tried /\ compressed' = "threw"
                \/ /\ Len(tried') = Len(tried) + 1
                   /\ SubSeq(tried', 1, Len(tried)) = tried]_vars
  /\ [][pc = "compressed" => pc' # "encode" /\ tried' = <<>>]_vars

\* an encode of exactly the budget was accepted at the second width
C10_Witness ==
  /\ pc = "compressed"
  /\ compressed = "true"
  /\ Len(candidates) = Len(WidthLadder) + 1
  /\ Len(tried) > Len(qualities) + 1
  /\ tried[Len(tried)][3] = MAX_BYTES

\* ---------------------------------------------------------------- item loop properties
InItemLoop == pc \notin {"fetch", "collected", "exit1", "done"}
\* the logical image the latest download request belongs to (1-based)
Current == IF pc = "done" THEN i ELSE i + 1
Rejected == \/ pc = "settled" /\ ~result.ok
            \/ pc = "compressed" /\ compressed # "true"
Accepted == \/ pc = "settled" /\ result.ok /\ files[outSlot(saved, i)] <= MAX_BYTES
            \/ pc = "compressed" /\ compressed = "true"

\* C11: once the list is not empty, every failure of a download or of a
\* re-encode leaves the run able to go on: no state of the item loop is a dead
\* end, and the run ends with exit status 0 after the last logical image (or
\* with TARGET_COUNT files saved).
C11_FailuresRecovered ==
  /\ InItemLoop => ENABLED Next
  /\ pc = "done" => exitCode = 0 /\ (i = Len(images) \/ saved = TARGET_COUNT)

\* C12: the download requests of one logical image are, in order, its
\* canonical URL and the 800x600, 640x480 and 400x240 URLs of its base URL; a
\* further URL is requested only by a step that rejects the one in flight, and
\* a step that accepts one counts it as saved and requests nothing more for
\* that image; so an image gets at most four requests.
Ladder(image) ==
  <<image.url,
    Host \o Str(image.urlBase) \o <<"_", "800x600", ".jpg">>,
    Host \o Str(image.urlBase) \o <<"_", "640x480", ".jpg">>,
    Host \o Str(image.urlBase) \o <<"_", "400x240", ".jpg">>>>

C12_LadderOrder ==
  /\ []((InItemLoop \/ pc = "done")
          => /\ Len(attempts) \in 1..4
             /\ Len(attempts) = c
             /\ attempts = SubSeq(Ladder(images[Current]), 1, Len(attempts)))
  /\ [][(InItemLoop /\ Len(attempts') > Len(attempts))
          => /\ Rejected
             /\ i' = i
             /\ SubSeq(attempts', 1, Len(attempts)) = attempts
             /\ Len(attempts') = Len(attempts) + 1]_vars
  /\ [][Accepted
          => /\ saved' = saved + 1
             /\ i' = i + 1
             /\ pc' = "done" \/ Len(attempts') = 1]_vars

\* the fourth URL of a ladder was accepted after three rejections
C12_Witness ==
  /\ pc = "settled"
  /\ result.ok
  /\ Len(attempts) = 4
  /\ attempts[4] = Host \o Str(images[i + 1].urlBase) \o <<"_", "400x240", ".jpg">>
  /\ attempts[1] # attempts[4]

\* C13: when compressToLimit does not bring the downloaded file within the
\* budget (the decode failed, an encode failed, or no cell of the grid fits),
\* the step that resumes main removes the file at the slot, leaves the saved
\* count as it is, and requests the next URL of the ladder if there is one.
C13_FailedReencodeRemoved ==
  [][(pc = "compressed" /\ compressed # "true")
       => /\ files'[outSlot(saved, i)] = NoFile
          /\ saved' = saved
          /\ c < Len(Ladder(images[i + 1]))
               => pc' = "download" /\ i' = i /\ Len(attempts') = Len(attempts) + 1]_vars

\* C14: inside downloadWithLimit the destination changes only by the writeFile
\* that follows 'end' on a response that was not aborted; a success reports the
\* bytes received, which are the bytes written and at most the ceiling, and
\* touches no other file; a call that settles with a bad status or too-large
\* leaves every file as it was.
C14_WriteAfterBody ==
  /\ [][(pc \in {"download", "body"}) => files' = files]_vars
  /\ [][pc' = "write" => pc = "body" /\ ~aborted /\ buffered = total]_vars
  /\ [][(pc = "write" /\ result'.ok)
          => /\ files'[outSlot(saved, i)] = total
             /\ result'.bytes = total
             /\ total <= MAX_DOWNLOAD_BYTES
             /\ \A k \in Slots : k # outSlot(saved, i) => files'[k] = files[k]]_vars
  /\ [][(pc' = "settled" /\ result'.reason \in {"status", "too-large"})
          => ~result'.ok /\ files' = files]_vars

\* a body of two chunks was written whole
C14_Witness ==
  /\ pc = "settled"
  /\ result.ok
  /\ nchunks = 2
  /\ result.bytes = 2 * MAX_BYTES
  /\ files[outSlot(saved, i)] = 2 * MAX_BYTES
  /\ saved > 0

\* ---------------------------------------------------------------- collector properties
\* day offset and market of the p-th metadata request, read from its URL
DayOf(p) == requests[p][2]
MarketOf(p) == requests[p][6]
LastRequest == Len(requests)

\* C15: the metadata requests of a run are for pairwise different (day offset,
\* market) pairs, with day offsets in 0..MAX_FETCH_DAYS-1; a step in which the
\* request in flight fails leaves the list and the seen set as they were and
\* either requests the pair that follows it (never the same pair again) or, if
\* it was the last pair, ends the collection.
C15_EachPairOnce ==
  /\ [](\A p \in 1..Len(requests) :
          /\ DayOf(p) \in 0..(MAX_FETCH_DAYS - 1)
          /\ \E k \in 1..Len(MARKETS) : MarketOf(p) = MARKETS[k]
          /\ \A q \in 1..Len(requests) :
               p # q => <<DayOf(p), MarketOf(p)>> # <<DayOf(q), MarketOf(q)>>)
  /\ [][lastFailed'
          => /\ images' = images
             /\ seen' = seen
             /\ IF DayOf(LastRequest) = MAX_FETCH_DAYS - 1 /\ MarketOf(LastRequest) = MARKETS[Len(MARKETS)]
                THEN pc' = "collected" /\ requests' = requests
                ELSE /\ pc' = "fetch"
                     /\ Len(requests') = Len(requests) + 1
                     /\ SubSeq(requests', 1, Len(requests)) = requests
                     /\ requests'[Len(requests')] \notin {requests[p] : p \in 1..Len(requests)}]_vars

\* a request failed after something had been collected, and the next pair is in
\* flight
C15_Witness ==
  /\ pc = "fetch"
  /\ lastFailed
  /\ Len(images) > 0
  /\ Len(requests) > Len(MARKETS)

\* C16 as stated: between two consecutive metadata requests the market changes
\* only after the last day offset was requested for the current market.
C16_DaysInsideMarkets ==
  \A p \in 1..(Len(requests) - 1) :
    MarketOf(p + 1) # MarketOf(p) => DayOf(p) = MAX_FETCH_DAYS - 1

\* C16 as amended: the market loop is nested inside the day-offset loop: the
\* p-th metadata request is for day offset (p-1) div |MARKETS| and market
\* (p-1) mod |MARKETS|, so the day offset changes only after every market was
\* requested for the current day offset.
C16_MarketsInsideDays ==
  /\ \A p \in 1..Len(requests) :
       /\ DayOf(p) = ((p - 1) \div Len(MARKETS)) * BATCH_SIZE
       /\ MarketOf(p) = MARKETS[((p - 1) % Len(MARKETS)) + 1]
  /\ \A p \in 1..(Len(requests) - 1) :
       DayOf(p + 1) # DayOf(p) => MarketOf(p) = MARKETS[Len(MARKETS)]

\* the collector went on to the second day offset
C16_Witness ==
  /\ pc = "fetch"
  /\ Len(requests) = Len(MARKETS) + 2
  /\ DayOf(LastRequest) = 1
  /\ MarketOf(LastRequest) = MARKETS[2]
  /\ DayOf(1) = 0

\* ---------------------------------------------------------------- run properties
\* C17: main has one operation in flight at a time.  A metadata request is
\* issued only by the step that receives the outcome of the one before it; a
\* download request only by the step that ends the collection or receives the
\* outcome of the previous download or re-encode; a re-encode starts only from
\* a delivered successful download.  When a success is delivered the
\* destination file already holds the body.
C17_OneAtATime ==
  /\ [][requests' # requests => pc = "fetch" /\ pc' = "fetch"]_vars
  /\ [][attempts' # attempts
          => pc \in {"collected", "settled", "compressed"} /\ pc' = "download"]_vars
  /\ [][(pc' = "metadata" /\ pc # "metadata") => pc = "settled" /\ result.ok]_vars
  /\ [][(pc \in {"download", "body", "write", "metadata", "encode"})
          => requests' = requests /\ attempts' = attempts /\ i' = i /\ saved' = saved]_vars
  /\ []((pc = "settled" /\ result.ok) => files[outSlot(saved, i)] = result.bytes)

\* the second URL of a later image is in flight after files were saved
C17_Witness ==
  /\ pc = "body"
  /\ Len(attempts) = 2
  /\ i > 0
  /\ saved > 0
  /\ Len(requests) > 1

\* C18: at the end of a run the saved count is the number of files in the
\* output directory.
C18_SavedCountsFiles ==
  pc = "done" => Cardinality({k \in Slots : Present(k)}) = saved

\* C19: the saved count never decreases, a file that has been counted is never
\* changed again, and every change of the output directory is at slot saved+1.
C19_SavedFilesUntouched ==
  /\ [][saved' \in {saved, saved + 1}]_vars
  /\ [][\A k \in Slots : k <= saved => files'[k] = files[k]]_vars
  /\ [][\A k \in Slots : files'[k] # files[k] => k = saved + 1]_vars
  /\ [](\A k \in Slots : k <= saved => Present(k))

\* a re-encode failed at the slot after a counted file, which is about to be
\* unlinked
C19_Witness ==
  /\ pc = "compressed"
  /\ compressed = "false"
  /\ saved > 0
  /\ Present(saved + 1)
  /\ files[saved] # files[saved + 1]

\* C20: every run terminates, and within its bounds: at most MAX_FETCH_DAYS x
\* |MARKETS| metadata requests, at most four download requests for each of at
\* most TARGET_COUNT logical images, at most 9 x 8 encodes per re-encode.
C20_Terminates ==
  /\ <>(pc \in {"done", "exit1"})
  /\ [](/\ Len(requests) <= MAX_FETCH_DAYS * Len(MARKETS)
        /\ Len(attempts) <= 1 + Len(SIZE_CANDIDATES)
        /\ i <= TARGET_COUNT
        /\ Len(tried) <= (1 + Len(WidthLadder)) * Len(qualities))

====
